---------------------------- MODULE Spec2Model ----------------------------
(***************************************************************************)
(* AgentDQN (rltf/agents/dqn_agent.py): the constructor, the actor loop    *)
(* _run_env and the learner loop _train_model, run as two threads that     *)
(* hand the model executor to each other through two events.               *)
(*                                                                         *)
(* A thread's program counter names the statement the thread is executing: *)
(* env_pc = "control_action" means the inference call is in flight, and    *)
(* the action ControlAction is its return.  The events, the step range and *)
(* the replay buffer live in rltf.agents.agent and rltf.memory, which are  *)
(* not part of the sources at hand; they are modelled from the             *)
(* specification's sections 3, 4.1 and 4.2.                                *)
(***************************************************************************)
EXTENDS Integers, Sequences, FiniteSets, TLC

\* ------------------------------------------------------------- bounds
MaxSteps       == 4
MaxTrainFreq   == 2
MaxTargetFreq  == 2
MaxStartTrain  == 3
MaxSaveFreq    == 2
MaxBatch       == 2
MaxMemory      == 2
MaxHist        == 2
\* the replay buffer explored by itself
MaxBufMemory   == 4
MaxBufHist     == 4
MaxFrames      == 6

\* ------------------------------------------------------ configuration
\* OffPolicyAgent's step range: range(self.start_step, self.max_steps+1)
start_step == 1
\* the steps of the longest run, the range of the call counters
StepRange  == start_step..MaxSteps

VARIABLES
  \* constructor arguments and the environment's spaces
  train_freq, update_target_freq, start_train, save_freq, batch_size,
  memory_size, obs_hist_len, obs_box, act_discrete,
  \* the last step of the run
  max_steps,
  \* the handshake's state when the threads start
  presignal,
  \* the agent object
  constructed,        \* "new" | "ok" | the assertion that failed
  built,              \* which of {"model", "replay_buf"} __init__ has created
  learn_started,
  act_chosen, train_done,
  \* replay buffer
  buf_slots, buf_next, buf_num,
  \* _run_env
  env_pc, env_t, last_obs, idx, done, action,
  state,              \* the encoded observation handed to the model
  \* _train_model
  net_pc, net_t, batch,
  sampled,            \* the slots a sample call in flight has drawn
  \* instrumentation: calls[c][t] and env_calls[c][t] count the returns of
  \* call c in step t of the learner and of the actor
  calls, env_calls

confVars == <<train_freq, update_target_freq, start_train, save_freq,
              batch_size, memory_size, obs_hist_len, obs_box, act_discrete,
              max_steps, presignal>>
bufVars  == <<buf_slots, buf_next, buf_num>>
envVars  == <<env_pc, env_t, last_obs, idx, done, action, state, env_calls>>
netVars  == <<net_pc, net_t, batch, sampled, calls>>
vars     == <<confVars, constructed, built, learn_started, act_chosen,
              train_done, bufVars, envVars, netVars>>

\* the steps of this run
Steps == start_step..max_steps

Min(a, b) == IF a <= b THEN a ELSE b

\* ------------------------------------------------------- periodic gates
\* line 39, with a swapped-operand variant of the assertion before it
TargetFreqMultipleSwapped(utf, tf) == tf % utf = 0
TargetFreqMultiple(utf, tf) == utf % tf = 0

\* line 149, with variants that forget one half of the test before it
TrainStepNoStart(t) == t % train_freq = 0
TrainStepNoFreq(t) == t >= start_train
TrainStep(t) == t >= start_train /\ t % train_freq = 0

\* line 175, and a variant that tests the wrong period
UpdateTargetStepTrainFreq(t) == t % train_freq = 0
UpdateTargetStep(t) == t % update_target_freq = 0

\* line 181, and a variant that saves on training steps only
SaveStepTrainOnly(t) == TrainStep(t) /\ t % save_freq = 0
SaveStep(t) == t % save_freq = 0

\* --------------------------------------------------------- replay buffer
Slots == 0..(memory_size - 1)
EmptySlot == [frame |-> 0, pending |-> FALSE, done |-> FALSE]

\* The slot written last (the only one that can be pending).
Newest == (buf_next + memory_size - 1) % memory_size

\* Section 3: a slot is eligible when its frame and its effect are both
\* stored and its successor is a written slot that really follows it; the
\* newest slot is followed by an unwritten slot or by the oldest one.
Eligible(i) ==
  /\ buf_slots[i].frame # 0
  /\ ~buf_slots[i].pending
  /\ buf_slots[(i + 1) % memory_size].frame # 0
  /\ i # Newest

EligibleSlots == {i \in Slots : Eligible(i)}

\* The first training step of the run (max_steps + 1 when there is none).
TrainingDue(t) == t >= start_train /\ t % train_freq = 0

FirstTrainStep ==
  IF \E t \in Steps : TrainingDue(t)
  THEN CHOOSE t \in Steps : TrainingDue(t) /\ \A u \in Steps : TrainingDue(u) => t <= u
  ELSE max_steps + 1

\* The start_train gate leaves batch_size eligible slots at the first sample.
GateAdequate ==
  FirstTrainStep <= max_steps =>
    batch_size <= Min(FirstTrainStep - start_step, memory_size) - 1

\* ------------------------------------------------------------------ Init
NoCalls == [c \in {"sample", "wait_act_chosen", "train_op", "update_target",
                   "save", "signal_train_done"}
              |-> [t \in StepRange |-> 0]]
NoEnvCalls == [c \in {"wait_train_done", "signal_act_chosen"}
                 |-> [t \in StepRange |-> 0]]
NoState == <<>>

InitAny ==
  /\ max_steps \in StepRange
  /\ train_freq \in 1..MaxTrainFreq
  /\ update_target_freq \in 1..MaxTargetFreq
  /\ start_train \in 1..MaxStartTrain
  /\ save_freq \in 1..MaxSaveFreq
  /\ batch_size \in 1..MaxBatch
  /\ memory_size \in 1..MaxMemory
  \* the buffer rejects a capacity below the history length
  /\ obs_hist_len \in 1..Min(MaxHist, memory_size)
  /\ obs_box \in BOOLEAN
  /\ act_discrete \in BOOLEAN
  /\ presignal \in BOOLEAN
  /\ constructed = "new"
  /\ built = {}
  /\ learn_started = FALSE
  /\ act_chosen = FALSE
  /\ train_done = presignal
  /\ buf_slots = [i \in Slots |-> EmptySlot]
  /\ buf_next = 0
  /\ buf_num = 0
  /\ env_pc = "start"
  /\ env_t = start_step
  /\ last_obs = 0
  /\ idx = 0
  /\ done = FALSE
  /\ action = "none"
  /\ state = NoState
  /\ env_calls = NoEnvCalls
  /\ net_pc = "start"
  /\ net_t = start_step
  /\ batch = 0
  /\ sampled = {}
  /\ calls = NoCalls

\* The agent as it is started: train_done pre-signaled, any configuration.
Init == InitAny /\ presignal

\* -------------------------------------------------------------- __init__
\* lines 35-59: super().__init__, the three assertions, then the model and
\* the replay buffer.
AgentInit ==
  /\ constructed = "new"
  /\ IF ~obs_box THEN
       constructed' = "assert_observation_space" /\ built' = built
     ELSE IF ~act_discrete THEN
       constructed' = "assert_action_space" /\ built' = built
     ELSE IF ~TargetFreqMultiple(update_target_freq, train_freq) THEN
       constructed' = "assert_update_target_freq" /\ built' = built
     ELSE
       constructed' = "ok" /\ built' = {"model", "replay_buf"}
  /\ UNCHANGED <<confVars, learn_started, act_chosen, train_done, bufVars,
                 envVars, netVars>>


Running == constructed = "ok"

\* ---------------------------------------------------------------- events
\* _wait_*: block until the event is set, then clear it.  _signal_*: set it.
EventWait(ev) == ev
EventSet == TRUE
EventCleared == FALSE

\* ------------------------------------------------------- ReplayBuffer ops
\* store_frame: write at the cursor, mark the slot pending, advance.
store_frame(obs) ==
  /\ buf_slots' = [buf_slots EXCEPT ![buf_next] =
                     [frame |-> obs, pending |-> TRUE, done |-> FALSE]]
  /\ buf_next' = (buf_next + 1) % memory_size
  /\ buf_num' = Min(memory_size, buf_num + 1)

\* store_effect accepts only the most recently issued pending slot.
ValidSlot(i) == i = Newest /\ buf_slots[i].pending

store_effect(i, d) ==
  /\ buf_slots' = [buf_slots EXCEPT ![i] = [@ EXCEPT !.pending = FALSE, !.done = d]]
  /\ UNCHANGED <<buf_next, buf_num>>

\* sample(batch_size) needs batch_size eligible slots.
CanSample(n) == Cardinality(EligibleSlots) >= n

\* The draws of one sample call: n indices drawn independently from the
\* eligible slots, as the set of slots they name.
Draws(n) == {S \in SUBSET EligibleSlots : S # {} /\ Cardinality(S) <= n}

\* Section 3: the state ending at slot i.  Back(i, d) is the slot written d
\* frames before slot i, wrapping around the ring; Age(i) counts the frames
\* stored after slot i.
Age(i) == (Newest + memory_size - i) % memory_size
Back(i, d) == (i + d * memory_size - d) % memory_size

\* A variant that keeps the slot carrying the done flag.
ReadableKeepDone(i, d) ==
  /\ Age(i) + d < buf_num
  /\ \A e \in 1..(d - 1) : ~buf_slots[Back(i, e)].done

\* Walking back from slot i, the frame d slots before it is read when it is
\* still in the ring and neither it nor a slot between it and i carries a
\* done flag: done is stored with the last observation of an episode (line
\* 133), so a frame with the flag, and every older one, belongs to an
\* episode that has ended (the worked example of section 8).  The wrap of
\* the index is no boundary by itself.
Readable(i, d) ==
  /\ Age(i) + d < buf_num
  /\ \A e \in 1..d : ~buf_slots[Back(i, e)].done

\* A variant that returns the frames newest first.
encode_obs_newest_first(i) ==
  [p \in 1..obs_hist_len |->
     IF Readable(i, p - 1) THEN buf_slots[Back(i, p - 1)].frame ELSE 0]

\* The H frames of the state, oldest first; 0 is the zero-valued frame.
encode_obs(i) ==
  [p \in 1..obs_hist_len |->
     IF Readable(i, obs_hist_len - p)
     THEN buf_slots[Back(i, obs_hist_len - p)].frame
     ELSE 0]

\* Section 4.1: encode_recent_obs builds the state ending at the most
\* recently completed slot, the newest slot when its effect is stored and
\* the one before it while the newest is pending; with no completed slot in
\* the ring every position is the zero frame.
HasCompleted == buf_num > (IF buf_slots[Newest].pending THEN 1 ELSE 0)
LastCompleted == IF buf_slots[Newest].pending THEN Back(Newest, 1) ELSE Newest
ZeroState == [p \in 1..obs_hist_len |-> 0]

encode_recent_obs ==
  IF HasCompleted THEN encode_obs(LastCompleted) ELSE ZeroState

\* ---------------------------------------------------------------- _run_env
EnvLoop(t) == IF t <= max_steps THEN "wait_train_done" ELSE "done"

\* The order of the loop body's statements from the action choice on
\* (lines 109-142), with a variant before it that signals act_chosen only
\* after store_effect.
EnvAfterLateSignal(pc) ==
  CASE pc = "choose_action"     -> "env_step"
    [] pc = "control_action"    -> "env_step"
    [] pc = "env_step"          -> "store_effect"
    [] pc = "store_effect"      -> "signal_act_chosen"
    [] pc = "signal_act_chosen" -> "log_progress"

EnvAfter(pc) ==
  CASE pc = "choose_action"     -> "signal_act_chosen"
    [] pc = "control_action"    -> "signal_act_chosen"
    [] pc = "signal_act_chosen" -> "env_step"
    [] pc = "env_step"          -> "store_effect"
    [] pc = "store_effect"      -> "log_progress"

EnvCalled(c) == [env_calls EXCEPT ![c][env_t] = @ + 1]

\* line 97
EnvReset ==
  /\ Running /\ env_pc = "start"
  /\ last_obs' = env_t
  /\ env_pc' = EnvLoop(env_t)
  /\ UNCHANGED <<confVars, constructed, built, learn_started, act_chosen,
                 train_done, bufVars, env_t, idx, done, action, state, env_calls,
                 netVars>>

\* A variant that does not wait for the event.
WaitTrainDoneNoBlock ==
  /\ Running /\ env_pc = "wait_train_done"
  /\ train_done' = EventCleared
  /\ env_calls' = EnvCalled("wait_train_done")
  /\ env_pc' = "store_frame"
  /\ UNCHANGED <<confVars, constructed, built, learn_started, act_chosen,
                 bufVars, env_t, last_obs, idx, done, action, state, netVars>>

\* line 103
WaitTrainDone ==
  /\ Running /\ env_pc = "wait_train_done"
  /\ EventWait(train_done)
  /\ train_done' = EventCleared
  /\ env_calls' = EnvCalled("wait_train_done")
  /\ env_pc' = "store_frame"
  /\ UNCHANGED <<confVars, constructed, built, learn_started, act_chosen,
                 bufVars, env_t, last_obs, idx, done, action, state, netVars>>

\* A variant that drops the index store_frame returns.
StoreFrameNoIdx ==
  /\ Running /\ env_pc = "store_frame"
  /\ store_frame(last_obs)
  /\ idx' = idx
  /\ env_pc' = "choose_action"
  /\ UNCHANGED <<confVars, constructed, built, learn_started, act_chosen,
                 train_done, env_t, last_obs, done, action, state, env_calls,
                 netVars>>

\* line 106
StoreFrame ==
  /\ Running /\ env_pc = "store_frame"
  /\ store_frame(last_obs)
  /\ idx' = buf_next
  /\ env_pc' = "choose_action"
  /\ UNCHANGED <<confVars, constructed, built, learn_started, act_chosen,
                 train_done, env_t, last_obs, done, action, state, env_calls,
                 netVars>>

\* lines 109-122: read learn_started; draw against epsilon; a random action
\* is chosen at once, a greedy one encodes the state (line 117) and hands it
\* to the model.
ChooseAction ==
  /\ Running /\ env_pc = "choose_action"
  /\ \/ /\ learn_started
        /\ state' = encode_recent_obs
        /\ env_pc' = "control_action"
        /\ action' = "none"
     \/ /\ env_pc' = EnvAfter("choose_action")
        /\ action' = "random"
        /\ state' = state
  /\ UNCHANGED <<confVars, constructed, built, learn_started, act_chosen,
                 train_done, bufVars, env_t, last_obs, idx, done, env_calls,
                 netVars>>

\* line 118: the inference call returns
ControlAction ==
  /\ Running /\ env_pc = "control_action"
  /\ action' = "model"
  /\ env_pc' = EnvAfter("control_action")
  /\ UNCHANGED <<confVars, constructed, built, learn_started, act_chosen,
                 train_done, bufVars, env_t, last_obs, idx, done, state, env_calls,
                 netVars>>

\* A variant that moves on without setting the event.
SignalActChosenLost ==
  /\ Running /\ env_pc = "signal_act_chosen"
  /\ env_pc' = EnvAfter("signal_act_chosen")
  /\ UNCHANGED <<confVars, constructed, built, learn_started, act_chosen,
                 train_done, bufVars, env_t, last_obs, idx, done, action, state, env_calls,
                 netVars>>

\* line 125
SignalActChosen ==
  /\ Running /\ env_pc = "signal_act_chosen"
  /\ act_chosen' = EventSet
  /\ env_calls' = EnvCalled("signal_act_chosen")
  /\ env_pc' = EnvAfter("signal_act_chosen")
  /\ UNCHANGED <<confVars, constructed, built, learn_started, train_done,
                 bufVars, env_t, last_obs, idx, done, action, state, netVars>>

\* line 129: the environment answers with the next observation and done
EnvStep ==
  /\ Running /\ env_pc = "env_step"
  /\ last_obs' = env_t + 1
  /\ done' \in BOOLEAN
  /\ env_pc' = EnvAfter("env_step")
  /\ UNCHANGED <<confVars, constructed, built, learn_started, act_chosen,
                 train_done, bufVars, env_t, idx, action, state, env_calls,
                 netVars>>

\* line 133
StoreEffect ==
  /\ Running /\ env_pc = "store_effect"
  /\ IF ValidSlot(idx)
     THEN store_effect(idx, done) /\ env_pc' = EnvAfter("store_effect")
     ELSE UNCHANGED bufVars /\ env_pc' = "InvalidSlot"
  /\ UNCHANGED <<confVars, constructed, built, learn_started, act_chosen,
                 train_done, env_t, last_obs, idx, done, action, state, env_calls,
                 netVars>>

\* lines 139-142, and the loop's next t.  A reset observation takes the
\* place of the next observation under the same label; done, action and
\* state are dead until the next step assigns them.
LogProgress ==
  /\ Running /\ env_pc = "log_progress"
  /\ env_t' = env_t + 1
  /\ env_pc' = EnvLoop(env_t + 1)
  /\ done' = FALSE
  /\ action' = "none"
  /\ state' = NoState
  /\ UNCHANGED <<confVars, constructed, built, learn_started, act_chosen,
                 train_done, bufVars, last_obs, idx, env_calls, netVars>>

EnvNext ==
  \/ EnvReset \/ WaitTrainDone \/ StoreFrame \/ ChooseAction \/ ControlAction
  \/ SignalActChosen \/ EnvStep \/ StoreEffect \/ LogProgress

\* ------------------------------------------------------------ _train_model
NetLoop(t) == IF t <= max_steps THEN "train_step" ELSE "done"

SaveOrSignal(t) == IF SaveStep(t) THEN "save" ELSE "signal_train_done"

Called(c) == [calls EXCEPT ![c][net_t] = @ + 1]

\* line 147: the thread enters its loop
NetStart ==
  /\ Running /\ net_pc = "start"
  /\ net_pc' = NetLoop(net_t)
  /\ UNCHANGED <<confVars, constructed, built, learn_started, act_chosen,
                 train_done, bufVars, envVars, net_t, batch, sampled, calls>>

\* A variant whose training branch does not sample.
TrainStepTestNoSample ==
  /\ Running /\ net_pc = "train_step"
  /\ IF TrainStep(net_t)
     THEN learn_started' = TRUE /\ net_pc' = "wait_act_chosen"
     ELSE learn_started' = learn_started /\ net_pc' = "wait_act_chosen"
  /\ UNCHANGED <<confVars, constructed, built, act_chosen, train_done,
                 bufVars, envVars, net_t, batch, sampled, calls>>

\* lines 149-151, and the else at 178
TrainStepTest ==
  /\ Running /\ net_pc = "train_step"
  /\ IF TrainStep(net_t)
     THEN learn_started' = TRUE /\ net_pc' = "sample"
     ELSE learn_started' = learn_started /\ net_pc' = "wait_act_chosen"
  /\ UNCHANGED <<confVars, constructed, built, act_chosen, train_done,
                 bufVars, envVars, net_t, batch, sampled, calls>>

\* line 154, first half: the sample call draws its indices from the slots
\* eligible at that moment, or fails.  The actor thread runs on while the
\* call goes on to read the drawn slots.
SampleDraw ==
  /\ Running /\ net_pc = "sample"
  /\ IF CanSample(batch_size)
     THEN sampled' \in Draws(batch_size) /\ net_pc' = "sample_read"
     ELSE sampled' = sampled /\ net_pc' = "InsufficientData"
  /\ UNCHANGED <<confVars, constructed, built, learn_started, act_chosen,
                 train_done, bufVars, envVars, net_t, batch, calls>>

\* A variant whose training branch lacks the _wait_act_chosen of line 169.
SampleNoWait ==
  /\ Running /\ net_pc = "sample_read"
  /\ batch' = net_t
  /\ sampled' = {}
  /\ calls' = Called("sample")
  /\ net_pc' = "train_op"
  /\ UNCHANGED <<confVars, constructed, built, learn_started, act_chosen,
                 train_done, bufVars, envVars, net_t>>

\* line 154, second half: the call reads the drawn slots and returns the
\* batch (the feed_dict of 157-167 takes it).
Sample ==
  /\ Running /\ net_pc = "sample_read"
  /\ batch' = net_t
  /\ sampled' = {}
  /\ calls' = Called("sample")
  /\ net_pc' = "wait_act_chosen"
  /\ UNCHANGED <<confVars, constructed, built, learn_started, act_chosen,
                 train_done, bufVars, envVars, net_t>>

\* A variant that does not wait for the event.
WaitActChosenNoBlock ==
  /\ Running /\ net_pc = "wait_act_chosen"
  /\ act_chosen' = EventCleared
  /\ calls' = Called("wait_act_chosen")
  /\ net_pc' = IF TrainStep(net_t) THEN "train_op" ELSE SaveOrSignal(net_t)
  /\ UNCHANGED <<confVars, constructed, built, learn_started, train_done,
                 bufVars, envVars, net_t, batch, sampled>>

\* A variant that returns without clearing the event.
WaitActChosenNoClear ==
  /\ Running /\ net_pc = "wait_act_chosen"
  /\ EventWait(act_chosen)
  /\ calls' = Called("wait_act_chosen")
  /\ net_pc' = IF TrainStep(net_t) THEN "train_op" ELSE SaveOrSignal(net_t)
  /\ UNCHANGED <<confVars, constructed, built, learn_started, act_chosen,
                 train_done, bufVars, envVars, net_t, batch, sampled>>

\* lines 169 and 179
WaitActChosen ==
  /\ Running /\ net_pc = "wait_act_chosen"
  /\ EventWait(act_chosen)
  /\ act_chosen' = EventCleared
  /\ calls' = Called("wait_act_chosen")
  /\ net_pc' = IF TrainStep(net_t) THEN "train_op" ELSE SaveOrSignal(net_t)
  /\ UNCHANGED <<confVars, constructed, built, learn_started, train_done,
                 bufVars, envVars, net_t, batch, sampled>>

\* line 172
TrainOp ==
  /\ Running /\ net_pc = "train_op"
  /\ calls' = Called("train_op")
  /\ net_pc' = IF UpdateTargetStep(net_t) THEN "update_target" ELSE SaveOrSignal(net_t)
  /\ UNCHANGED <<confVars, constructed, built, learn_started, act_chosen,
                 train_done, bufVars, envVars, net_t, batch, sampled>>

\* line 176
UpdateTarget ==
  /\ Running /\ net_pc = "update_target"
  /\ calls' = Called("update_target")
  /\ net_pc' = SaveOrSignal(net_t)
  /\ UNCHANGED <<confVars, constructed, built, learn_started, act_chosen,
                 train_done, bufVars, envVars, net_t, batch, sampled>>

\* line 182
Save ==
  /\ Running /\ net_pc = "save"
  /\ calls' = Called("save")
  /\ net_pc' = "signal_train_done"
  /\ UNCHANGED <<confVars, constructed, built, learn_started, act_chosen,
                 train_done, bufVars, envVars, net_t, batch, sampled>>

\* line 184, and the loop's next t
SignalTrainDone ==
  /\ Running /\ net_pc = "signal_train_done"
  /\ train_done' = EventSet
  /\ calls' = Called("signal_train_done")
  /\ net_t' = net_t + 1
  /\ net_pc' = NetLoop(net_t + 1)
  /\ UNCHANGED <<confVars, constructed, built, learn_started, act_chosen,
                 bufVars, envVars, batch, sampled>>

NetNext ==
  \/ NetStart \/ TrainStepTest \/ SampleDraw \/ Sample \/ WaitActChosen \/ TrainOp
  \/ UpdateTarget \/ Save \/ SignalTrainDone

\* ------------------------------------------------------------------ specs
Next == AgentInit \/ EnvNext \/ NetNext

\* the agent as it is started
Spec == Init /\ [][Next]_vars

\* both threads scheduled fairly
FairSpec == Spec /\ WF_vars(AgentInit) /\ WF_vars(EnvNext) /\ WF_vars(NetNext)

\* the learner thread is scheduled fairly, the actor may stay in any of its
\* calls for ever
NetFairSpec == Spec /\ WF_vars(AgentInit) /\ WF_vars(NetNext)

\* the events in any initial state
SpecHandshake == InitAny /\ [][Next]_vars

\* ------------------------------------------------- the replay buffer alone
\* The buffer's operations in every single-writer order: store_frame and
\* store_effect alternate, with any done flag, and encode_recent_obs is
\* called between any two of them.  The observations are labelled 1, 2, ...
\* in the order they are stored; state holds what the last call of
\* encode_recent_obs returned, until the next write.
BufInit ==
  /\ memory_size \in 1..MaxBufMemory
  /\ obs_hist_len \in 1..Min(MaxBufHist, memory_size)
  /\ train_freq = 1 /\ update_target_freq = 1 /\ start_train = 1
  /\ save_freq = 1 /\ batch_size = 1
  /\ obs_box = TRUE /\ act_discrete = TRUE /\ presignal = TRUE
  /\ max_steps = MaxSteps
  /\ constructed = "ok"
  /\ built = {"model", "replay_buf"}
  /\ learn_started = FALSE
  /\ act_chosen = FALSE
  /\ train_done = TRUE
  /\ buf_slots = [i \in Slots |-> EmptySlot]
  /\ buf_next = 0
  /\ buf_num = 0
  /\ env_pc = "store_frame"
  /\ env_t = start_step
  /\ last_obs = 1
  /\ idx = 0
  /\ done = FALSE
  /\ action = "none"
  /\ state = NoState
  /\ env_calls = NoEnvCalls
  /\ net_pc = "start"
  /\ net_t = start_step
  /\ batch = 0
  /\ sampled = {}
  /\ calls = NoCalls

BufStoreFrame ==
  /\ env_pc = "store_frame" /\ last_obs <= MaxFrames
  /\ store_frame(last_obs)
  /\ idx' = buf_next
  /\ state' = NoState
  /\ env_pc' = "store_effect"
  /\ UNCHANGED <<confVars, constructed, built, learn_started, act_chosen,
                 train_done, env_t, last_obs, done, action, env_calls, netVars>>

BufStoreEffect ==
  /\ env_pc = "store_effect"
  /\ done' \in BOOLEAN
  /\ store_effect(idx, done')
  /\ last_obs' = last_obs + 1
  /\ state' = NoState
  /\ env_pc' = "store_frame"
  /\ UNCHANGED <<confVars, constructed, built, learn_started, act_chosen,
                 train_done, env_t, idx, action, env_calls, netVars>>

BufEncode ==
  /\ buf_num > 0 /\ state = NoState
  /\ state' = encode_recent_obs
  /\ UNCHANGED <<confVars, constructed, built, learn_started, act_chosen,
                 train_done, bufVars, env_pc, env_t, last_obs, idx, done,
                 action, env_calls, netVars>>

BufNext == BufStoreFrame \/ BufStoreEffect \/ BufEncode

SpecBuffer == BufInit /\ [][BufNext]_vars


\* ================================================================= claims
EnvDone == env_pc = "done"
NetDone == net_pc = "done"
InferenceInFlight == env_pc = "control_action"
SampleInFlight    == net_pc \in {"sample", "sample_read"}
OptimizeInFlight  == net_pc = "train_op"
RefreshInFlight   == net_pc = "update_target"

\* C1: an inference call of the actor is never in flight together with an
\* optimization call or a target-refresh call of the learner, whatever the
\* steps the two threads are in.
C1_ModelCallsExclusive ==
  ~(InferenceInFlight /\ (OptimizeInFlight \/ RefreshInFlight))

\* The learner of a training step has sampled and waits for the executor
\* while the actor's inference call of that step is in flight.
C1_Witness ==
  /\ InferenceInFlight
  /\ net_pc = "wait_act_chosen" /\ net_t = env_t /\ batch = net_t

\* C2: under fair scheduling both loops end, each after exactly
\* max_steps - start_step + 1 rounds, and in no state are both threads
\* blocked in their wait.
C2_BothBlocked ==
  /\ env_pc = "wait_train_done" /\ ~train_done
  /\ net_pc = "wait_act_chosen" /\ ~act_chosen

C2_Finished ==
  /\ EnvDone /\ NetDone
  /\ env_t = max_steps + 1 /\ net_t = max_steps + 1
  /\ \A t \in Steps : calls["signal_train_done"][t] = 1
  /\ buf_slots[Newest].frame = max_steps

\* C2 as stated.
C2_Terminates == [](~C2_BothBlocked) /\ (Running ~> C2_Finished)

\* The learner has left its loop in a sample call that raised
\* InsufficientData, without signaling train_done for that step; the actor
\* has completed that step and waits for ever at the head of the next one,
\* or has ended its loop when the step was the last.
C2_SampleFailed ==
  /\ net_pc = "InsufficientData"
  /\ \/ env_pc = "wait_train_done" /\ ~train_done /\ env_t = net_t + 1
     \/ EnvDone /\ net_t = max_steps

\* C2 as amended: under fair scheduling, in no state are both threads
\* blocked in their wait, and either both loops end, each after exactly
\* max_steps - start_step + 1 rounds, or a sample call of the learner
\* raises InsufficientData, the learner thread ends without its
\* _signal_train_done and the actor stays in its next _wait_train_done.
\* With an adequate start_train gate no sample call raises, so both loops
\* end.
C2_TerminatesUnlessSampleFails ==
  /\ [](~C2_BothBlocked)
  /\ [](GateAdequate => net_pc # "InsufficientData")
  /\ Running ~> (C2_Finished \/ C2_SampleFailed)

\* Both loops have ended after the last round, the last step a training
\* step.
C2_Witness == C2_Finished /\ calls["train_op"][max_steps] = 1

\* C3 as stated: started with neither event set, the actor stays in its
\* first _wait_train_done with no frame stored, the learner gets no further
\* than its first _wait_act_chosen, nothing is optimized, inferred, saved or
\* signaled, and once both are in their wait no step is possible.
C3_UnsignaledStartDeadlocks ==
  (Running /\ ~presignal) =>
    /\ env_pc \in {"start", "wait_train_done"} /\ env_t = start_step
    /\ buf_num = 0 /\ \A i \in Slots : buf_slots[i].frame = 0
    /\ net_pc \in {"start", "train_step", "wait_act_chosen"} /\ net_t = start_step
    /\ ~train_done /\ ~act_chosen
    /\ \A c \in DOMAIN calls : \A t \in Steps : calls[c][t] = 0
    /\ (env_pc = "wait_train_done" /\ net_pc = "wait_act_chosen") => ~ENABLED Next

\* C3 as amended: started with neither event set, the actor stays in its
\* first _wait_train_done with no frame stored, and nothing is sampled,
\* optimized, inferred, saved or signaled.  When start_step is no training
\* step the learner gets no further than its first _wait_act_chosen; when
\* it is one, the learner sets learn_started and calls sample on the empty
\* buffer, which raises InsufficientData and ends the learner thread.  In
\* either end state no step is possible.
C3_UnsignaledStartStalls ==
  (Running /\ ~presignal) =>
    /\ env_pc \in {"start", "wait_train_done"} /\ env_t = start_step
    /\ buf_num = 0 /\ \A i \in Slots : buf_slots[i].frame = 0
    /\ state = NoState /\ action = "none"
    /\ net_t = start_step
    /\ IF TrainingDue(start_step)
       THEN /\ net_pc \in {"start", "train_step", "sample", "InsufficientData"}
            /\ learn_started = (net_pc \in {"sample", "InsufficientData"})
       ELSE /\ net_pc \in {"start", "train_step", "wait_act_chosen"}
            /\ ~learn_started
    /\ ~train_done /\ ~act_chosen
    /\ \A c \in DOMAIN calls : \A t \in Steps : calls[c][t] = 0
    /\ \A c \in DOMAIN env_calls : \A t \in Steps : env_calls[c][t] = 0
    /\ ( /\ env_pc = "wait_train_done"
         /\ net_pc \in {"wait_act_chosen", "InsufficientData"} ) => ~ENABLED Next

\* Both threads sit in their first wait of an unsignaled start.
C3_Witness ==
  /\ Running /\ ~presignal
  /\ env_pc = "wait_train_done" /\ net_pc = "wait_act_chosen"

\* C4: the optimization of step t does not wait for the actor's env.step or
\* store_effect of step t: with the actor in either call, and even if it
\* never returns from it, the learner carries out step t's optimization (on a
\* training step) and signals train_done for step t, unless its sample call
\* has raised InsufficientData (which no run with an adequate start_train
\* gate does).
C4_LearnerPastStep(t) ==
  /\ calls["signal_train_done"][t] = 1
  /\ calls["train_op"][t] = IF TrainingDue(t) THEN 1 ELSE 0

C4_OptimizeOverlapsEnvStep ==
  /\ [](GateAdequate => net_pc # "InsufficientData")
  /\ \A t \in StepRange :
       (env_pc \in {"env_step", "store_effect"} /\ env_t = t) ~>
         (C4_LearnerPastStep(t) \/ net_pc = "InsufficientData")

\* The optimization call of step t is in flight while the actor steps the
\* environment for step t, and it still is when the actor goes on to
\* store_effect for step t.
C4_Witness ==
  /\ OptimizeInFlight /\ env_pc = "env_step" /\ env_t = net_t
  /\ ENABLED (EnvStep /\ env_pc' = "store_effect" /\ env_t' = net_t'
              /\ net_pc' = "train_op")

\* C5 as stated: a run of the two loops that holds a training step (and
\* whose sample calls all succeed) comes to a state with a sample call in
\* flight while an optimization call is in flight.
C5_SampleOverlapsOptimize ==
  (Running /\ GateAdequate /\ \E t \in Steps : TrainingDue(t)) ~>
    (SampleInFlight /\ (OptimizeInFlight \/ RefreshInFlight))

\* C5 as amended: sample and the optimization are calls of the one learner
\* thread; the optimization of a step starts after that step's sample has
\* returned its batch, and a sample call starts after every earlier
\* optimization has returned and its train_done is signaled.  What a sample
\* call overlaps with is the actor: its store_frame, its inference, its
\* env.step and its store_effect.
C5_SampleThenOptimize ==
  /\ (OptimizeInFlight \/ RefreshInFlight) =>
       batch = net_t /\ calls["sample"][net_t] = 1
  /\ SampleInFlight =>
       /\ calls["train_op"][net_t] = 0
       /\ \A u \in Steps : (u < net_t /\ TrainingDue(u)) =>
            calls["train_op"][u] = 1 /\ calls["signal_train_done"][u] = 1

\* A sample call is in flight while the actor's inference call of the same
\* step is in flight.
C5_Witness ==
  SampleInFlight /\ InferenceInFlight /\ env_t = net_t

\* C6: __init__ fails at line 39, with neither the model nor the replay
\* buffer created and no loop started, whenever update_target_freq is not a
\* multiple of train_freq, and never fails there when it is one
\* (20000 and 4 pass, 20001 and 4 fail).
C6_TargetFreqChecked ==
  /\ constructed # "new" =>
       /\ update_target_freq % train_freq # 0 =>
            /\ constructed # "ok"
            /\ built = {} /\ env_pc = "start" /\ net_pc = "start"
       /\ (obs_box /\ act_discrete /\ update_target_freq % train_freq # 0) =>
            constructed = "assert_update_target_freq"
       /\ update_target_freq % train_freq = 0 =>
            constructed # "assert_update_target_freq"
       /\ (obs_box /\ act_discrete /\ update_target_freq % train_freq = 0) =>
            constructed = "ok" /\ built = {"model", "replay_buf"}
  /\ TargetFreqMultiple(20000, 4)
  /\ ~TargetFreqMultiple(20001, 4)

\* The constructor has stopped at the assertion of line 39.
C6_Witness ==
  /\ constructed = "assert_update_target_freq"
  /\ update_target_freq % train_freq # 0 /\ built = {}

\* C7: in step t the learner calls sample and the optimization once each
\* when t >= start_train and t % train_freq = 0, and not at all otherwise.
C7_TrainOnGateOnly ==
  \A t \in Steps :
    LET due == t >= start_train /\ t % train_freq = 0
        n == IF due THEN 1 ELSE 0 IN
    /\ calls["sample"][t] <= n /\ calls["train_op"][t] <= n
    /\ calls["train_op"][t] <= calls["sample"][t]
    /\ (net_t > t) => calls["sample"][t] = n /\ calls["train_op"][t] = n

\* The learner has ended a run that held a step without training before
\* start_train, a step skipped by train_freq after it, and a training step.
C7_Witness ==
  /\ NetDone
  /\ \E t \in Steps : t < start_train /\ t % train_freq = 0 /\ calls["train_op"][t] = 0
  /\ \E t \in Steps : t >= start_train /\ t % train_freq # 0 /\ calls["train_op"][t] = 0
  /\ \E t \in Steps : calls["train_op"][t] = 1 /\ calls["sample"][t] = 1

\* C8: with update_target_freq a multiple of train_freq, the target refresh
\* runs in step t exactly when t >= start_train and
\* t % update_target_freq = 0, after that step's optimization has returned
\* and before that step's train_done is signaled.
C8_TargetRefreshCadence ==
  update_target_freq % train_freq = 0 =>
    /\ \A t \in Steps :
         LET n == IF t >= start_train /\ t % update_target_freq = 0 THEN 1 ELSE 0 IN
         /\ calls["update_target"][t] <= n
         /\ (net_t > t) => calls["update_target"][t] = n
         /\ calls["update_target"][t] = 1 => calls["train_op"][t] = 1
    /\ RefreshInFlight =>
         /\ calls["train_op"][net_t] = 1
         /\ calls["signal_train_done"][net_t] = 0

\* The learner has ended a run with a refreshed step and with a training
\* step at or after start_train that did not refresh.
C8_Witness ==
  /\ NetDone
  /\ \E t \in Steps : calls["update_target"][t] = 1
  /\ \E t \in Steps : calls["train_op"][t] = 1 /\ calls["update_target"][t] = 0

\* C9: whenever an inference call of the actor is in flight, an optimization
\* call of the learner has returned before.
C9_InferenceAfterFirstOptimize ==
  InferenceInFlight => \E t \in Steps : calls["train_op"][t] >= 1

\* C10 as stated: whatever start_train is, a sample call finds batch_size
\* eligible slots and never ends in InsufficientData.
C10_SampleNeverFails ==
  /\ net_pc = "sample" => CanSample(batch_size)
  /\ net_pc # "InsufficientData"

\* C10 as amended: when the first training step t0 of the run satisfies
\* batch_size <= min(t0 - start_step, memory_size) - 1, every sample call
\* finds batch_size eligible slots and none ends in InsufficientData.
C10_AdequateGateSampleSucceeds ==
  GateAdequate =>
    /\ net_pc = "sample" => Cardinality(EligibleSlots) >= batch_size
    /\ net_pc # "InsufficientData"

\* The first sample call of a run whose gate is just adequate: the buffer
\* holds exactly batch_size eligible slots, the newest frame still pending.
C10_Witness ==
  /\ GateAdequate
  /\ net_pc = "sample" /\ net_t = FirstTrainStep
  /\ Cardinality(EligibleSlots) = batch_size
  /\ buf_slots[Newest].pending

\* C11: whatever the actor's store_frame and store_effect calls do while a
\* sample call is in flight, no slot the call is about to read is pending,
\* none is followed by an unwritten slot, and none is the newest slot, whose
\* successor in the ring is the oldest, overwritten one.
C11_SampledSlotsComplete ==
  net_pc = "sample_read" =>
    \A i \in sampled :
      /\ ~buf_slots[i].pending
      /\ buf_slots[(i + 1) % memory_size].frame # 0
      /\ i # Newest

PendingSlots == {i \in Slots : buf_slots[i].pending}
FrameStored == env_pc \in {"choose_action", "control_action", "signal_act_chosen",
                           "env_step", "store_effect"}

\* C12: at most one slot is pending, and it is the newest one; from the
\* return of store_frame to the return of store_effect the pending slot is
\* the one whose index store_frame returned in this step, holding this
\* step's observation, so store_effect never ends in InvalidSlot.
C12_TwoPhaseWrite ==
  Running =>
    /\ Cardinality(PendingSlots) <= 1
    /\ PendingSlots \subseteq {Newest}
    /\ FrameStored =>
         /\ PendingSlots = {idx}
         /\ buf_slots[idx].frame = env_t
         /\ ValidSlot(idx)
    /\ ~FrameStored => PendingSlots = {}
    /\ env_pc # "InvalidSlot"

\* store_effect has completed a slot of a ring that has wrapped.
C12_Witness ==
  /\ env_pc = "log_progress" /\ env_t > memory_size /\ memory_size > 1
  /\ buf_slots[idx].frame = env_t /\ PendingSlots = {}

\* The label of the frame stored last, and the done flag stored with the
\* frame labelled f (the labels in the ring are distinct).
LastFrame == buf_slots[Newest].frame
FrameDone(f) == \E i \in Slots : buf_slots[i].frame = f /\ buf_slots[i].done

\* C13: encode_recent_obs, called when k >= H frames are stored and
\* complete and none of the H-1 steps that led from frame k-H+1 to frame k
\* ended an episode (no done flag on the frames k-H+1, ..., k-1), returns
\* the observations k-H+1, ..., k in this order, none of them replaced by a
\* zero frame, wherever the ring's cursor stands.
C13_FullHistory ==
  ( /\ state # NoState /\ PendingSlots = {}
    /\ LastFrame >= obs_hist_len
    /\ \A f \in (LastFrame - obs_hist_len + 1)..(LastFrame - 1) : ~FrameDone(f) )
  => state = [p \in 1..obs_hist_len |-> LastFrame - obs_hist_len + p]

\* A full state whose window runs over the end of the ring: its newest
\* frame sits in a slot below H-1 of a ring that has wrapped.
C13_Witness ==
  /\ state # NoState /\ PendingSlots = {}
  /\ obs_hist_len >= 2 /\ LastFrame > memory_size
  /\ Newest < obs_hist_len - 1
  /\ state = [p \in 1..obs_hist_len |-> LastFrame - obs_hist_len + p]

\* The frame the encoded state ends at, and the offsets up to n of the
\* done flags found when walking back from it among the frames still in the
\* ring; NearestDone(n) is the first one found.
EndFrame == buf_slots[LastCompleted].frame
DoneOffsets(n) ==
  {e \in 1..n : Age(LastCompleted) + e < buf_num /\ FrameDone(EndFrame - e)}
NearestDone(n) == CHOOSE e \in DoneOffsets(n) : \A e2 \in DoneOffsets(n) : e <= e2

C15_SaveCadence ==
  /\ \A t \in Steps :
       /\ calls["save"][t] <= 1
       /\ calls["save"][t] = 1 => t % save_freq = 0
       /\ calls["signal_train_done"][t] = 1 =>
            calls["save"][t] = (IF t % save_freq = 0 THEN 1 ELSE 0)
  /\ net_pc = "save" =>
       /\ net_t % save_freq = 0
       /\ calls["wait_act_chosen"][net_t] = 1
       /\ calls["signal_train_done"][net_t] = 0
       /\ ~InferenceInFlight

\* _save has returned in a step that does not train, after a step without
\* a save and before the first training step.
C15_Witness ==
  /\ net_pc = "signal_train_done" /\ calls["save"][net_t] = 1
  /\ ~TrainingDue(net_t) /\ net_t < FirstTrainStep /\ FirstTrainStep <= max_steps
  /\ \E u \in Steps : u < net_t /\ calls["save"][u] = 0


\* C16: the step indices of the two loops differ by at most one; the actor
\* is past the _wait_train_done of a step after the first only when the
\* learner has signaled train_done for the step before, and an optimization
\* or target-refresh call of step t is in flight only when the actor has
\* signaled act_chosen for step t.
C16_Lockstep ==
  Running =>
    /\ env_t - net_t \in {-1, 0, 1}
    /\ (env_t > start_step /\ env_pc \notin {"wait_train_done", "done"}) =>
         calls["signal_train_done"][env_t - 1] = 1
    /\ (OptimizeInFlight \/ RefreshInFlight) =>
         env_calls["signal_act_chosen"][net_t] = 1

\* The learner optimizes for step t while the actor, a step ahead, waits
\* for train_done before its store_frame of step t+1.
C16_Witness ==
  /\ OptimizeInFlight /\ env_t = net_t + 1
  /\ env_pc = "wait_train_done" /\ ~train_done


\* C17 as stated: while a sample call of step t is in flight the actor is in
\* neither env.step nor store_effect, and every slot that holds a frame
\* stored before step t is complete.
C17_SampleAfterStoreEffect ==
  SampleInFlight =>
    /\ env_pc \notin {"env_step", "store_effect"}
    /\ \A i \in Slots :
         (buf_slots[i].frame # 0 /\ buf_slots[i].frame < net_t) =>
           ~buf_slots[i].pending

\* C17 as amended: while a sample call of step t is in flight the actor is
\* between its _signal_act_chosen of step t-1 and its _wait_train_done of
\* step t+1: in env.step, store_effect or _log_progress of step t-1,
\* anywhere in step t, or waiting at the head of step t+1.  Every slot that
\* holds a frame stored before step t-1 is complete; the frame of step t-1
\* may still be pending.
C17_SampleAfterActChosen ==
  SampleInFlight =>
    /\ env_t \in {net_t - 1, net_t, net_t + 1}
    /\ env_t = net_t - 1 =>
         /\ env_pc \in {"env_step", "store_effect", "log_progress"}
         /\ env_calls["signal_act_chosen"][env_t] = 1
    /\ env_t = net_t + 1 => env_pc \in {"wait_train_done", "done"}
    /\ \A i \in Slots :
         (buf_slots[i].frame # 0 /\ buf_slots[i].frame < net_t - 1) =>
           ~buf_slots[i].pending

\* A sample call of step t is in flight while the actor is still in the
\* env.step of step t-1, the frame of step t-1 pending.
C17_Witness ==
  /\ SampleInFlight /\ env_t = net_t - 1 /\ env_pc = "env_step"
  /\ \E i \in Slots : buf_slots[i].frame = env_t /\ buf_slots[i].pending


\* The steps a loop has completed: the actor has left _log_progress of
\* them, the learner _signal_train_done.
EnvPast(t) == t < env_t
NetPast(t) == t < net_t

\* C18: started with train_done set and act_chosen clear, at most one of
\* the two events is set; an event is clear whenever its _signal_ call is
\* about to set it; and in every step, training or not, the actor returns
\* from one _wait_train_done and one _signal_act_chosen and the learner
\* from one _wait_act_chosen and one _signal_train_done.
C18_SingleToken ==
  (Running /\ presignal) =>
    /\ ~(act_chosen /\ train_done)
    /\ env_pc = "signal_act_chosen" => ~act_chosen
    /\ net_pc = "signal_train_done" => ~train_done
    /\ \A t \in Steps :
         /\ env_calls["wait_train_done"][t] <= 1
         /\ env_calls["signal_act_chosen"][t] <= 1
         /\ calls["wait_act_chosen"][t] <= 1
         /\ calls["signal_train_done"][t] <= 1
         /\ EnvPast(t) => /\ env_calls["wait_train_done"][t] = 1
                          /\ env_calls["signal_act_chosen"][t] = 1
         /\ NetPast(t) => /\ calls["wait_act_chosen"][t] = 1
                          /\ calls["signal_train_done"][t] = 1

\* Both loops have completed a training step and a step that does not
\* train, and the token is with the actor again.
C18_Witness ==
  /\ train_done /\ ~act_chosen
  /\ \E t, u \in Steps :
       /\ TrainingDue(t) /\ ~TrainingDue(u)
       /\ EnvPast(t) /\ EnvPast(u) /\ NetPast(t) /\ NetPast(u)
       /\ calls["train_op"][t] = 1 /\ calls["train_op"][u] = 0


\* C19: while the inference call of step t is in flight, the newest frame
\* of the state it was given is the observation store_frame stored in this
\* same step t, whose slot is still pending, and not the observation of
\* step t-1.
C19_StateEndsAtCurrentObs ==
  InferenceInFlight =>
    /\ Len(state) = obs_hist_len
    /\ state[obs_hist_len] = buf_slots[idx].frame
    /\ state[obs_hist_len] = env_t /\ last_obs = env_t
    /\ state[obs_hist_len] # env_t - 1
    /\ buf_slots[idx].pending /\ idx = Newest

=============================================================================
